---- MODULE Spec2Model ----
(***************************************************************************)
(* Model of the waifuvault Rust client (src/src/lib.rs, src/src/api.rs).   *)
(*                                                                         *)
(* A caller builds a request value with the fluent builders of api.rs,     *)
(* hands it to one operation of ApiCaller, the operation renders it into   *)
(* one HTTP request, awaits the transport, and turns the response into a   *)
(* typed result or an error.  The transport, the remote service and the    *)
(* file system are the environment: their answers are chosen               *)
(* nondeterministically.                                                   *)
(***************************************************************************)
EXTENDS Integers, Sequences, FiniteSets, TLC

VARIABLES
    req,      \* the request value the caller is building / has passed to the call
    pc,       \* "idle" | "sending" (request with the transport) |
              \* "waiting" (request delivered, response pending) | "done"
    op,       \* the operation in progress, "none" when idle
    pw,       \* download_file: the password argument, live across the await
    wire,     \* the HTTP request in flight from this call to the service
    sends,    \* number of transport sends performed by the call in progress
    reads,    \* what each std::fs::read of the call in progress answered, in order
    resp,     \* what the transport answered
    result,   \* what the operation returned to its caller
    kept,     \* what is left of the upload just made, for the caller that goes
              \* on to download it: the content and password the caller
              \* gave, and the body the service received
    caller,   \* the ApiCaller every operation borrows as &self
    parked,   \* the locals of a second task that shares the ApiCaller and is
              \* not running now
    store     \* the file a service holds for the caller, with its options

vars == <<req, pc, op, pw, wire, sends, reads, resp, result, kept, caller, parked, store>>

----------------------------------------------------------------------------
(* Bounds of the model *)

\* number of distinct opaque strings (tokens, passwords, urls, contents ...)
MaxStr == 2
StrName(i) ==
    CASE i = 1 -> "s1" [] i = 2 -> "s2" [] i = 3 -> "s3" [] i = 4 -> "s4" [] OTHER -> "s5"

Strs == {StrName(i) : i \in 1..MaxStr}

\* local paths, as their components: a bare file name, one below a directory,
\* or the parent directory (a path that ends in no file name)
Paths == {<<n>> : n \in Strs} \cup {<<"dir", n>> : n \in Strs} \cup {<<"..">>}

\* Option<T>: None is the empty sequence, Some(x) the one-element sequence
None == <<>>
Some(x) == <<x>>
IsSome(o) == Len(o) = 1
IsNone(o) == Len(o) = 0
Unwrap(o) == o[1]
Opt(S) == {None} \cup {Some(x) : x \in S}

----------------------------------------------------------------------------
(* JSON values.  One record shape for every value: t is the JSON type,     *)
(* s the string payload, n the numeric payload.  For an array or a nested  *)
(* object, s names the Rust type its contents deserialize to ("junk" when  *)
(* they deserialize to none) and n is the array length.                    *)

JStr(s) == [t |-> "str", s |-> s, n |-> 0]
JNum(n) == [t |-> "num", s |-> "", n |-> n]
JBool(b) == [t |-> "bool", s |-> "", n |-> IF b THEN 1 ELSE 0]
JNull == [t |-> "null", s |-> "", n |-> 0]
JArr(kind, len) == [t |-> "arr", s |-> kind, n |-> len]
JObj(kind) == [t |-> "obj", s |-> kind, n |-> 0]

\* A response body: a JSON object, a JSON array, another JSON value, or
\* bytes that are not JSON at all.
ObjBody(f) == [t |-> "obj", f |-> f]
SeqBody(e) == [t |-> "seq", e |-> e]
ValBody(v) == [t |-> "val", v |-> v]
RawBody(s) == [t |-> "raw", s |-> s]

----------------------------------------------------------------------------
(* The response types of api.rs: the fields of each struct in declaration  *)
(* order, with the wire name, the Rust type and whether it is an Option.   *)

Fld(name, ty, opt) == [name |-> name, ty |-> ty, opt |-> opt]

WaifuFileEntry ==
    << Fld("token", "String", FALSE),
       Fld("url", "String", FALSE),
       Fld("bucket", "String", TRUE),
       Fld("album", "WaifuAlbumMetadata", TRUE),
       Fld("views", "usize", FALSE),
       Fld("retentionPeriod", "Value", FALSE),
       Fld("options", "WaifuFileOptions", TRUE) >>

WaifuBucketEntry ==
    << Fld("token", "String", FALSE),
       Fld("files", "Vec<WaifuFileEntry>", FALSE),
       Fld("albums", "Vec<WaifuAlbumMetadata>", TRUE) >>

WaifuAlbumEntry ==
    << Fld("token", "String", FALSE),
       Fld("bucketToken", "String", FALSE),
       Fld("publicToken", "String", TRUE),
       Fld("name", "String", FALSE),
       Fld("files", "Vec<WaifuFileEntry>", FALSE) >>

WaifuGenericMessage ==
    << Fld("success", "bool", FALSE),
       Fld("description", "String", FALSE) >>

WaifuError ==
    << Fld("name", "String", FALSE),
       Fld("message", "String", FALSE),
       Fld("status", "u16", FALSE) >>

U16Max == 65535

\* serde's Deserialize of one value into the Rust type ty
TypeOk(ty, v) ==
    CASE ty = "String" -> v.t = "str"
      [] ty = "bool" -> v.t = "bool"
      [] ty = "usize" -> v.t = "num" /\ v.n >= 0
      [] ty = "u16" -> v.t = "num" /\ v.n >= 0 /\ v.n <= U16Max
      [] ty = "Value" -> TRUE
      [] ty = "Vec<WaifuFileEntry>" -> v.t = "arr" /\ (v.n = 0 \/ v.s = "WaifuFileEntry")
      [] ty = "Vec<WaifuAlbumMetadata>" -> v.t = "arr" /\ (v.n = 0 \/ v.s = "WaifuAlbumMetadata")
      [] ty = "WaifuAlbumMetadata" -> v.t = "obj" /\ v.s = "WaifuAlbumMetadata"
      [] ty = "WaifuFileOptions" -> v.t = "obj" /\ v.s = "WaifuFileOptions"
      [] OTHER -> FALSE

\* one field of a derived struct: an Option takes null, anything else must
\* deserialize to the field's type
FieldOk(fd, v) == (fd.opt /\ v.t = "null") \/ TypeOk(fd.ty, v)

\* #[derive(Deserialize)] on a struct, as an untagged-enum variant: a map
\* needs every non-Option field (unknown keys are ignored), a sequence
\* needs exactly one element per field
Matches(struct, body) ==
    CASE body.t = "obj" ->
           \A i \in 1..Len(struct) :
              IF struct[i].name \in DOMAIN body.f
                THEN FieldOk(struct[i], body.f[struct[i].name])
                ELSE struct[i].opt
      [] body.t = "seq" ->
           /\ Len(body.e) = Len(struct)
           /\ \A i \in 1..Len(struct) : FieldOk(struct[i], body.e[i])
      [] OTHER -> FALSE

FieldNames(struct) == {struct[i].name : i \in 1..Len(struct)}
IndexOf(struct, k) == CHOOSE i \in 1..Len(struct) : struct[i].name = k

\* the deserialized struct: its own fields only, None (null) for an absent Option
Deser(struct, body) ==
    [k \in FieldNames(struct) |->
        IF body.t = "obj"
          THEN IF k \in DOMAIN body.f THEN body.f[k] ELSE JNull
          ELSE body.e[IndexOf(struct, k)]]

NoMatch == [variant |-> "NoMatch"]

Variant(name, value) == [variant |-> name, value |-> value]

\* (mutation) the variants tried with the bucket before the album
WaifuApiResponse_BucketFirst(body) ==
    IF Matches(WaifuFileEntry, body)
      THEN Variant("WaifuFileResponse", Deser(WaifuFileEntry, body))
    ELSE IF Matches(WaifuBucketEntry, body)
      THEN Variant("WaifuBucketResponse", Deser(WaifuBucketEntry, body))
    ELSE IF Matches(WaifuAlbumEntry, body)
      THEN Variant("WaifuAlbumResponse", Deser(WaifuAlbumEntry, body))
    ELSE IF Matches(WaifuGenericMessage, body)
      THEN Variant("WaifuGenericResponse", Deser(WaifuGenericMessage, body))
    ELSE IF Matches(WaifuError, body)
      THEN Variant("WaifuError", Deser(WaifuError, body))
    ELSE IF body.t = "val" /\ body.v.t = "bool"
      THEN Variant("Delete", [flag |-> body.v])
    ELSE NoMatch

\* (mutation) the variants tried with the error before the generic message
WaifuApiResponse_ErrorFirst(body) ==
    IF Matches(WaifuFileEntry, body)
      THEN Variant("WaifuFileResponse", Deser(WaifuFileEntry, body))
    ELSE IF Matches(WaifuAlbumEntry, body)
      THEN Variant("WaifuAlbumResponse", Deser(WaifuAlbumEntry, body))
    ELSE IF Matches(WaifuBucketEntry, body)
      THEN Variant("WaifuBucketResponse", Deser(WaifuBucketEntry, body))
    ELSE IF Matches(WaifuError, body)
      THEN Variant("WaifuError", Deser(WaifuError, body))
    ELSE IF Matches(WaifuGenericMessage, body)
      THEN Variant("WaifuGenericResponse", Deser(WaifuGenericMessage, body))
    ELSE IF body.t = "val" /\ body.v.t = "bool"
      THEN Variant("Delete", [flag |-> body.v])
    ELSE NoMatch

\* (mutation) the variants tried with the album before the file
WaifuApiResponse_AlbumFirst(body) ==
    IF Matches(WaifuAlbumEntry, body)
      THEN Variant("WaifuAlbumResponse", Deser(WaifuAlbumEntry, body))
    ELSE IF Matches(WaifuFileEntry, body)
      THEN Variant("WaifuFileResponse", Deser(WaifuFileEntry, body))
    ELSE IF Matches(WaifuBucketEntry, body)
      THEN Variant("WaifuBucketResponse", Deser(WaifuBucketEntry, body))
    ELSE IF Matches(WaifuGenericMessage, body)
      THEN Variant("WaifuGenericResponse", Deser(WaifuGenericMessage, body))
    ELSE IF Matches(WaifuError, body)
      THEN Variant("WaifuError", Deser(WaifuError, body))
    ELSE IF body.t = "val" /\ body.v.t = "bool"
      THEN Variant("Delete", [flag |-> body.v])
    ELSE NoMatch

\* #[serde(untagged)] enum WaifuApiResponse: the first variant, in
\* declaration order, that deserializes
WaifuApiResponse(body) ==
    IF Matches(WaifuFileEntry, body)
      THEN Variant("WaifuFileResponse", Deser(WaifuFileEntry, body))
    ELSE IF Matches(WaifuAlbumEntry, body)
      THEN Variant("WaifuAlbumResponse", Deser(WaifuAlbumEntry, body))
    ELSE IF Matches(WaifuBucketEntry, body)
      THEN Variant("WaifuBucketResponse", Deser(WaifuBucketEntry, body))
    ELSE IF Matches(WaifuGenericMessage, body)
      THEN Variant("WaifuGenericResponse", Deser(WaifuGenericMessage, body))
    ELSE IF Matches(WaifuError, body)
      THEN Variant("WaifuError", Deser(WaifuError, body))
    ELSE IF body.t = "val" /\ body.v.t = "bool"
      THEN Variant("Delete", [flag |-> body.v])
    ELSE NoMatch

----------------------------------------------------------------------------
(* Results and errors.  An anyhow::Error is its root cause plus the stack  *)
(* of context strings added on the way up; downcast::<WaifuError>() finds  *)
(* the root whatever context was added.                                    *)

AdHoc(text) == [root |-> "msg", text |-> text, waifu |-> None, context |-> <<>>]
Unexpected(text, response) ==
    [root |-> "msg", text |-> text, waifu |-> None, context |-> <<>>, debug |-> response]
FromWaifuError(e) == [root |-> "WaifuError", text |-> "", waifu |-> Some(e), context |-> <<>>]
FromReqwest(kind) == [root |-> "reqwest", text |-> kind, waifu |-> None, context |-> <<>>]
FromIo == [root |-> "io", text |-> "read", waifu |-> None, context |-> <<>>]

Context(e, c) == [e EXCEPT !.context = <<c>> \o @]
Downcast(e) == e.waifu

Ok(v) == [kind |-> "Ok", value |-> v]
Err(e) == [kind |-> "Err", error |-> e]
Panic(m) == [kind |-> "Panic", msg |-> m]
NoResult == [kind |-> "None"]

\* Result::context: wraps the error of an Err, leaves Ok (and a panic that
\* already unwound) alone
WithContext(r, c) == IF r.kind = "Err" THEN Err(Context(r.error, c)) ELSE r

\* (mutation) name and message change places
ToWaifuError_Swapped(v) ==
    [name |-> v["message"].s, message |-> v["name"].s, status |-> v["status"].n]

\* the WaifuError struct as the caller sees it
ToWaifuError(v) ==
    [name |-> v["name"].s, message |-> v["message"].s, status |-> v["status"].n]

\* parse_response: the FileEntry, the service's error, or unreachable!()
parse_response(response) ==
    CASE response.variant = "WaifuFileResponse" -> Ok(response.value)
      [] response.variant = "WaifuError" -> Err(FromWaifuError(ToWaifuError(response.value)))
      [] OTHER -> Panic("internal error: entered unreachable code: unused")

\* (mutation) every variant but the error is taken as the success
MatchResponse_AnyVariant(response, legal, text) ==
    CASE response.variant = "WaifuError" -> Err(FromWaifuError(ToWaifuError(response.value)))
      [] OTHER -> Ok(response.value)

\* the match that ends every other JSON endpoint: the legal variant, the
\* service's error, or anyhow::bail!
MatchResponse(response, legal, text) ==
    CASE response.variant = legal -> Ok(response.value)
      [] response.variant = "WaifuError" -> Err(FromWaifuError(ToWaifuError(response.value)))
      [] OTHER -> Err(Unexpected(text, response))

MatchDelete(response, text) ==
    CASE response.variant = "Delete" -> Ok(response.value.flag.n = 1)
      [] response.variant = "WaifuError" -> Err(FromWaifuError(ToWaifuError(response.value)))
      [] OTHER -> Err(AdHoc(text))

----------------------------------------------------------------------------
(* The transport's answer to one send: the send fails, or a response with  *)
(* a status and a body arrives.                                            *)

SendFailed == [sent |-> FALSE]
Response(status, body) == [sent |-> TRUE, status |-> status, body |-> body]
NoResponse == [sent |-> FALSE, none |-> TRUE]

\* (mutation) a body that fits no variant is passed on instead of failing
SendJson_NoDecodeCheck(o, sendCtx, jsonCtx) ==
    IF ~o.sent THEN [ok |-> FALSE, err |-> Err(Context(FromReqwest("send"), sendCtx))]
    ELSE IF o.body.t = "raw" THEN [ok |-> TRUE, response |-> NoMatch]
    ELSE [ok |-> TRUE, response |-> WaifuApiResponse(o.body)]

\* (mutation) a failed send is reported as an error of the service
SendJson_FailureAsWaifuError(o, sendCtx, jsonCtx) ==
    IF ~o.sent
      THEN [ok |-> FALSE,
            err |-> Err(FromWaifuError([name |-> "transport", message |-> sendCtx, status |-> 0]))]
    ELSE IF o.body.t = "raw" \/ WaifuApiResponse(o.body).variant = "NoMatch"
      THEN [ok |-> FALSE, err |-> Err(Context(FromReqwest("decode"), jsonCtx))]
    ELSE [ok |-> TRUE, response |-> WaifuApiResponse(o.body)]

\* (mutation) a status other than 200 is an error of the transport
SendJson_ChecksStatus(o, sendCtx, jsonCtx) ==
    IF ~o.sent THEN [ok |-> FALSE, err |-> Err(Context(FromReqwest("send"), sendCtx))]
    ELSE IF o.status # 200 THEN [ok |-> FALSE, err |-> Err(Context(FromReqwest("status"), sendCtx))]
    ELSE IF o.body.t = "raw" \/ WaifuApiResponse(o.body).variant = "NoMatch"
      THEN [ok |-> FALSE, err |-> Err(Context(FromReqwest("decode"), jsonCtx))]
    ELSE [ok |-> TRUE, response |-> WaifuApiResponse(o.body)]

\* send().await.context(c1)?.json().await.context(c2)?  The status is not read.
SendJson(o, sendCtx, jsonCtx) ==
    IF ~o.sent THEN [ok |-> FALSE, err |-> Err(Context(FromReqwest("send"), sendCtx))]
    ELSE IF o.body.t = "raw" \/ WaifuApiResponse(o.body).variant = "NoMatch"
      THEN [ok |-> FALSE, err |-> Err(Context(FromReqwest("decode"), jsonCtx))]
    ELSE [ok |-> TRUE, response |-> WaifuApiResponse(o.body)]

----------------------------------------------------------------------------
(* Request values of api.rs *)

NoRequest == [kind |-> "none"]

\* WaifuUploadRequest::new() = Default: every Option None, every flag false
WaifuUploadRequest_new ==
    [kind |-> "upload", file |-> None, url |-> None, bytes |-> None, bucket |-> None,
     filename |-> None, expires |-> None, hide_filename |-> FALSE, password |-> None,
     one_time_download |-> FALSE]

\* WaifuGetRequest::new(token)
WaifuGetRequest_new(token) == [kind |-> "get", token |-> token, formatted |-> FALSE]

\* WaifuModificationRequest::new(token)
WaifuModificationRequest_new(token) ==
    [kind |-> "mod", token |-> token, password |-> None, previous_password |-> None,
     custom_expiry |-> None, hide_filename |-> None]

\* (mutation) no skip_serializing_if: an unset field goes out as null
SerializeModification_Nulls(r) ==
    [k \in {"password", "previousPassword", "customExpiry", "hideFilename"} |->
        CASE k = "password" ->
               IF IsSome(r.password) THEN JStr(Unwrap(r.password)) ELSE JNull
          [] k = "previousPassword" ->
               IF IsSome(r.previous_password) THEN JStr(Unwrap(r.previous_password)) ELSE JNull
          [] k = "customExpiry" ->
               IF IsSome(r.custom_expiry) THEN JStr(Unwrap(r.custom_expiry)) ELSE JNull
          [] OTHER ->
               IF IsSome(r.hide_filename) THEN JBool(Unwrap(r.hide_filename)) ELSE JNull]

\* (mutation) hideFilename is a plain bool: unset, it goes out as false
SerializeModification_Defaults(r) ==
    LET keys == (IF IsSome(r.password) THEN {"password"} ELSE {})
                \cup (IF IsSome(r.previous_password) THEN {"previousPassword"} ELSE {})
                \cup (IF IsSome(r.custom_expiry) THEN {"customExpiry"} ELSE {})
                \cup {"hideFilename"}
        val(k) == CASE k = "password" -> JStr(Unwrap(r.password))
                    [] k = "previousPassword" -> JStr(Unwrap(r.previous_password))
                    [] k = "customExpiry" -> JStr(Unwrap(r.custom_expiry))
                    [] OTHER -> JBool(IF IsSome(r.hide_filename)
                                        THEN Unwrap(r.hide_filename) ELSE FALSE)
    IN [k \in keys |-> val(k)]

\* #[derive(Serialize)] of WaifuModificationRequest: token is skipped, each
\* Option is skipped when None, the others go out under their renamed keys
SerializeModification(r) ==
    LET keys == (IF IsSome(r.password) THEN {"password"} ELSE {})
                \cup (IF IsSome(r.previous_password) THEN {"previousPassword"} ELSE {})
                \cup (IF IsSome(r.custom_expiry) THEN {"customExpiry"} ELSE {})
                \cup (IF IsSome(r.hide_filename) THEN {"hideFilename"} ELSE {})
        val(k) == CASE k = "password" -> JStr(Unwrap(r.password))
                    [] k = "previousPassword" -> JStr(Unwrap(r.previous_password))
                    [] k = "customExpiry" -> JStr(Unwrap(r.custom_expiry))
                    [] OTHER -> JBool(Unwrap(r.hide_filename))
    IN [k \in keys |-> val(k)]

----------------------------------------------------------------------------
(* The HTTP request handed to the transport *)

API == "https://waifuvault.moe/rest"

NoWire == [method |-> "none"]

Request(method, url, query, headers, body) ==
    [method |-> method, url |-> url, query |-> query, headers |-> headers, body |-> body]

NoBody == [enc |-> "none"]
JsonBody(j) == [enc |-> "json", json |-> j]
\* a JSON body that is an array rather than an object
JsonArray(a) == [enc |-> "json", array |-> a]
FormBody(fields) == [enc |-> "form", fields |-> fields]
MultipartBody(parts) == [enc |-> "multipart", parts |-> parts]

\* multipart parts: Part::bytes(..).file_name(..) and Form::text
FilePart(name, filename, data) == [name |-> name, filename |-> Some(filename), data |-> data]
TextPart(name, text) == [name |-> name, filename |-> None, data |-> text]

\* serde_urlencoded writes a bool as true / false
BoolStr(b) == IF b THEN "true" ELSE "false"

JsonHeader == << <<"Content-Type", "application/json">> >>

\* (mutation) the first component of the path instead of the last
file_name_First(path) == IF path[Len(path)] = ".." THEN None ELSE Some(path[1])

\* Path::file_name: the last component of the path, None when the path ends in ..
file_name(path) == IF path[Len(path)] = ".." THEN None ELSE Some(path[Len(path)])

\* What std::fs::read may answer for a path: an io error (None) or the bytes
\* of the file.  A path that ends in no file name is a directory, and reading
\* a directory fails.
ReadOutcomes(path) == IF IsNone(file_name(path)) THEN {None} ELSE Opt(Strs)

\* (mutation) the password part is never added
UploadForm_NoPassword(data, filename, password) ==
    MultipartBody(<< FilePart("file", filename, data) >>)

\* The multipart form both upload branches build
UploadForm(data, filename, password) ==
    MultipartBody(<< FilePart("file", filename, data) >>
                  \o (IF IsSome(password) THEN << TextPart("password", Unwrap(password)) >>
                      ELSE << >>))

\* (mutation) expires is always sent, empty when unset
UploadQuery_AlwaysExpires(r) ==
    << <<"hide_filename", BoolStr(r.hide_filename)>>,
       <<"oneTimeDownload", BoolStr(r.one_time_download)>>,
       <<"expires", IF IsSome(r.expires) THEN Unwrap(r.expires) ELSE "">> >>

\* The query string of upload_file
UploadQuery(r) ==
    << <<"hide_filename", BoolStr(r.hide_filename)>>,
       <<"oneTimeDownload", BoolStr(r.one_time_download)>> >>
    \o (IF IsSome(r.expires) THEN << <<"expires", Unwrap(r.expires)>> >> ELSE << >>)

\* (mutation) no final else branch: without a content source an empty form goes out
UploadBody_NoSourceCheck(r, rd) ==
    IF IsSome(r.file) THEN
        IF IsNone(rd) THEN [ok |-> FALSE, err |-> Context(FromIo, "reading file")]
        ELSE IF IsNone(file_name(Unwrap(r.file))) THEN
            [ok |-> FALSE, panic |-> "this should be a valid filename"]
        ELSE [ok |-> TRUE,
              body |-> UploadForm(Unwrap(rd), Unwrap(file_name(Unwrap(r.file))), r.password)]
    ELSE IF IsSome(r.url) THEN
        [ok |-> TRUE, body |-> FormBody(<< <<"url", Unwrap(r.url)>> >>)]
    ELSE IF IsSome(r.bytes) /\ IsSome(r.filename) THEN
        [ok |-> TRUE, body |-> UploadForm(Unwrap(r.bytes), Unwrap(r.filename), r.password)]
    ELSE [ok |-> TRUE, body |-> MultipartBody(<< >>)]

\* (mutation) the url branch builds a multipart form of text parts
UploadBody_UrlAsMultipart(r, rd) ==
    IF IsSome(r.file) THEN
        IF IsNone(rd) THEN [ok |-> FALSE, err |-> Context(FromIo, "reading file")]
        ELSE IF IsNone(file_name(Unwrap(r.file))) THEN
            [ok |-> FALSE, panic |-> "this should be a valid filename"]
        ELSE [ok |-> TRUE,
              body |-> UploadForm(Unwrap(rd), Unwrap(file_name(Unwrap(r.file))), r.password)]
    ELSE IF IsSome(r.url) THEN
        [ok |-> TRUE,
         body |-> MultipartBody(<< TextPart("url", Unwrap(r.url)) >>
                                \o (IF IsSome(r.password)
                                      THEN << TextPart("password", Unwrap(r.password)) >>
                                      ELSE << >>))]
    ELSE IF IsSome(r.bytes) /\ IsSome(r.filename) THEN
        [ok |-> TRUE, body |-> UploadForm(Unwrap(r.bytes), Unwrap(r.filename), r.password)]
    ELSE [ok |-> FALSE, err |-> AdHoc("need either a file, url, or stream")]

\* (mutation) the answer of std::fs::read is not checked: a failed read
\* uploads an empty file
UploadBody_ReadUnchecked(r, rd) ==
    IF IsSome(r.file) THEN
        IF IsNone(file_name(Unwrap(r.file))) THEN
            [ok |-> FALSE, panic |-> "this should be a valid filename"]
        ELSE [ok |-> TRUE,
              body |-> UploadForm(IF IsSome(rd) THEN Unwrap(rd) ELSE "",
                                  Unwrap(file_name(Unwrap(r.file))), r.password)]
    ELSE IF IsSome(r.url) THEN
        [ok |-> TRUE,
         body |-> FormBody(<< <<"url", Unwrap(r.url)>> >>
                           \o (IF IsSome(r.password)
                                 THEN << <<"password", Unwrap(r.password)>> >> ELSE << >>))]
    ELSE IF IsSome(r.bytes) /\ IsSome(r.filename) THEN
        [ok |-> TRUE, body |-> UploadForm(Unwrap(r.bytes), Unwrap(r.filename), r.password)]
    ELSE [ok |-> FALSE, err |-> AdHoc("need either a file, url, or stream")]

\* (mutation) the url is looked at before the file
UploadBody_UrlFirst(r, rd) ==
    IF IsSome(r.url) THEN
        [ok |-> TRUE,
         body |-> FormBody(<< <<"url", Unwrap(r.url)>> >>
                           \o (IF IsSome(r.password)
                                 THEN << <<"password", Unwrap(r.password)>> >> ELSE << >>))]
    ELSE IF IsSome(r.file) THEN
        IF IsNone(rd) THEN [ok |-> FALSE, err |-> Context(FromIo, "reading file")]
        ELSE IF IsNone(file_name(Unwrap(r.file))) THEN
            [ok |-> FALSE, panic |-> "this should be a valid filename"]
        ELSE [ok |-> TRUE,
              body |-> UploadForm(Unwrap(rd), Unwrap(file_name(Unwrap(r.file))), r.password)]
    ELSE IF IsSome(r.bytes) /\ IsSome(r.filename) THEN
        [ok |-> TRUE, body |-> UploadForm(Unwrap(r.bytes), Unwrap(r.filename), r.password)]
    ELSE [ok |-> FALSE, err |-> AdHoc("need either a file, url, or stream")]

\* The body of upload_file: the first content source that is set, in the
\* order file, url, bytes.  rd is what std::fs::read answers for the file.
UploadBody(r, rd) ==
    IF IsSome(r.file) THEN
        IF IsNone(rd) THEN [ok |-> FALSE, err |-> Context(FromIo, "reading file")]
        ELSE IF IsNone(file_name(Unwrap(r.file))) THEN
            [ok |-> FALSE, panic |-> "this should be a valid filename"]
        ELSE [ok |-> TRUE,
              body |-> UploadForm(Unwrap(rd), Unwrap(file_name(Unwrap(r.file))), r.password)]
    ELSE IF IsSome(r.url) THEN
        [ok |-> TRUE,
         body |-> FormBody(<< <<"url", Unwrap(r.url)>> >>
                           \o (IF IsSome(r.password)
                                 THEN << <<"password", Unwrap(r.password)>> >> ELSE << >>))]
    ELSE IF IsSome(r.bytes) /\ IsSome(r.filename) THEN
        [ok |-> TRUE, body |-> UploadForm(Unwrap(r.bytes), Unwrap(r.filename), r.password)]
    ELSE [ok |-> FALSE, err |-> AdHoc("need either a file, url, or stream")]

\* (mutation) the bucket token is left out of the path
UploadUrl_Bare(r) == <<API>>

\* The url of upload_file: {API}/{bucket}, or API alone
UploadUrl(r) == IF IsSome(r.bucket) THEN <<API, Unwrap(r.bucket)>> ELSE <<API>>

----------------------------------------------------------------------------
(* What the service may answer.  The bodies are the well-formed objects of *)
(* each response type, each of them with one field dropped or ill-typed,   *)
(* the unions of two of them, and the bodies that are no object.           *)

Without(f, k) == [x \in DOMAIN f \ {k} |-> f[x]]
With(f, k, v) == [x \in DOMAIN f \cup {k} |-> IF x = k THEN v ELSE f[x]]
Merge(f, g) == [x \in DOMAIN f \cup DOMAIN g |-> IF x \in DOMAIN f THEN f[x] ELSE g[x]]

FileObject ==
    [token |-> JStr("s1"), url |-> JStr("s2"), views |-> JNum(0),
     retentionPeriod |-> JNum(1000), options |-> JObj("WaifuFileOptions")]
AlbumObject ==
    [token |-> JStr("s1"), bucketToken |-> JStr("s2"), publicToken |-> JNull,
     name |-> JStr("s1"), files |-> JArr("WaifuFileEntry", 1)]
BucketObject ==
    [token |-> JStr("s2"), files |-> JArr("WaifuFileEntry", 1),
     albums |-> JArr("WaifuAlbumMetadata", 0)]
GenericObject(b) == [success |-> JBool(b), description |-> JStr("s1")]
ErrorObject(m, st) == [name |-> JStr("s1"), message |-> JStr(m), status |-> JNum(st)]

\* status values a body may carry: inside and just outside of u16
BodyStatuses == {0, 400, 404, U16Max, U16Max + 1, -1}

Templates ==
    {FileObject, AlbumObject, BucketObject}
    \cup {GenericObject(b) : b \in BOOLEAN}
    \cup {ErrorObject(m, st) : m \in Strs, st \in BodyStatuses}

\* a value no typed field accepts
Junk == JArr("junk", 1)

WireObjects ==
    Templates
    \cup {Without(t, k) : t \in Templates, k \in {"token", "url", "views", "retentionPeriod", "files", "bucketToken", "name", "success", "description", "message", "status"}}
    \cup {With(t, k, v) : t \in Templates, k \in {"token", "views", "files", "name", "status", "options", "albums"}, v \in {Junk, JNull}}
    \cup {Merge(a, b) : a \in Templates, b \in Templates}

WireBodies ==
    {ObjBody(f) : f \in WireObjects}
    \cup {ValBody(v) : v \in {JBool(TRUE), JBool(FALSE), JNull, JNum(1), JStr("s1")}}
    \cup {SeqBody(e) : e \in {<< >>, <<JBool(TRUE), JStr("s1")>>,
                              <<JStr("s1"), JStr("s2"), JNum(404)>>, <<JNum(1)>>}}
    \cup {RawBody(s) : s \in Strs}

\* HTTP status codes the transport may report
Statuses == {200, 403, 404}

Outcomes == {SendFailed} \cup {Response(st, b) : st \in Statuses, b \in WireBodies}

----------------------------------------------------------------------------
(* What each operation does with the transport's answer *)

create_bucket_response(o) ==
    LET j == SendJson(o, "calling create bucket endpoint", "converting create bucket api response")
    IN IF j.ok THEN MatchResponse(j.response, "WaifuBucketResponse", "unexpected response") ELSE j.err

delete_bucket_response(o) ==
    LET j == SendJson(o, "sending delete bucket request", "converting response")
    IN IF j.ok THEN MatchDelete(j.response, "Received unexpected response from DELETE bucket endpoint")
       ELSE j.err

get_bucket_response(o) ==
    LET j == SendJson(o, "sending get bucket request", "converting response")
    IN IF j.ok THEN MatchResponse(j.response, "WaifuBucketResponse", "unexpected response from get bucket endpoint")
       ELSE j.err

upload_file_response(o) ==
    LET j == SendJson(o, "sending upload request", "converting upload response")
    IN IF j.ok THEN WithContext(parse_response(j.response), "parsing waifu api response") ELSE j.err

file_info_response(o) ==
    LET j == SendJson(o, "sending file info request", "converting response")
    IN IF j.ok THEN WithContext(parse_response(j.response), "parsing waifu api response") ELSE j.err

update_file_response(o) ==
    LET j == SendJson(o, "sending modification request", "converting response")
    IN IF j.ok THEN WithContext(parse_response(j.response), "parsing waifu api response") ELSE j.err

delete_file_response(o) ==
    LET j == SendJson(o, "sending delete request", "converting response")
    IN IF j.ok THEN MatchDelete(j.response, "received unexpected response from DELETE call") ELSE j.err

\* (mutation) one message for every 403
download_file_response_OneMessage(o, password) ==
    IF ~o.sent THEN Err(Context(FromReqwest("send"), "sending download request"))
    ELSE IF o.status = 200 THEN Ok(o.body)
    ELSE IF o.status = 403 THEN Err(AdHoc("supplied password is incorrect"))
    ELSE IF o.body.t = "raw" \/ WaifuApiResponse(o.body).variant = "NoMatch"
        THEN Err(Context(FromReqwest("decode"), "converting error"))
    ELSE IF WaifuApiResponse(o.body).variant = "WaifuError"
        THEN Err(FromWaifuError(ToWaifuError(WaifuApiResponse(o.body).value)))
    ELSE Err(AdHoc("something went wrong"))

\* the status decides first; the envelope is only parsed for a status that
\* is neither 200 nor 403
\* (mutation) status 200 is read as the response envelope like the other statuses
download_file_response_AlwaysEnvelope(o, password) ==
    IF ~o.sent THEN Err(Context(FromReqwest("send"), "sending download request"))
    ELSE IF o.status = 403 THEN
        IF IsSome(password) THEN Err(AdHoc("supplied password is incorrect"))
        ELSE Err(AdHoc("this file requires a password to download"))
    ELSE IF o.body.t = "raw" \/ WaifuApiResponse(o.body).variant = "NoMatch"
        THEN Err(Context(FromReqwest("decode"), "converting error"))
    ELSE IF WaifuApiResponse(o.body).variant = "WaifuError"
        THEN Err(FromWaifuError(ToWaifuError(WaifuApiResponse(o.body).value)))
    ELSE Err(AdHoc("something went wrong"))

\* (mutation) any other status fails without reading the body
download_file_response_NoEnvelope(o, password) ==
    IF ~o.sent THEN Err(Context(FromReqwest("send"), "sending download request"))
    ELSE IF o.status = 200 THEN Ok(o.body)
    ELSE IF o.status = 403 THEN
        IF IsSome(password) THEN Err(AdHoc("supplied password is incorrect"))
        ELSE Err(AdHoc("this file requires a password to download"))
    ELSE Err(AdHoc("something went wrong"))

download_file_response(o, password) ==
    IF ~o.sent THEN Err(Context(FromReqwest("send"), "sending download request"))
    ELSE IF o.status = 200 THEN Ok(o.body)
    ELSE IF o.status = 403 THEN
        IF IsSome(password) THEN Err(AdHoc("supplied password is incorrect"))
        ELSE Err(AdHoc("this file requires a password to download"))
    ELSE IF o.body.t = "raw" \/ WaifuApiResponse(o.body).variant = "NoMatch"
        THEN Err(Context(FromReqwest("decode"), "converting error"))
    ELSE IF WaifuApiResponse(o.body).variant = "WaifuError"
        THEN Err(FromWaifuError(ToWaifuError(WaifuApiResponse(o.body).value)))
    ELSE Err(AdHoc("something went wrong"))

create_album_response(o) ==
    LET j == SendJson(o, "sending create album request", "converting response")
    IN IF j.ok THEN MatchResponse(j.response, "WaifuAlbumResponse", "unexpected response from create album endpoint")
       ELSE j.err

associate_with_album_response(o) ==
    LET j == SendJson(o, "sending album association request", "converting response")
    IN IF j.ok THEN MatchResponse(j.response, "WaifuAlbumResponse", "unexpected response from album association endpoint")
       ELSE j.err

disassociate_from_album_response(o) ==
    LET j == SendJson(o, "sending album association request", "converting response")
    IN IF j.ok THEN MatchResponse(j.response, "WaifuAlbumResponse", "unexpected response from album association endpoint")
       ELSE j.err

delete_album_response(o) ==
    LET j == SendJson(o, "sending album delete request", "converting response")
    IN IF j.ok THEN MatchResponse(j.response, "WaifuGenericResponse", "unexpected response from album deletion endpoint")
       ELSE j.err

get_album_response(o) ==
    LET j == SendJson(o, "sending get album request", "converting response")
    IN IF j.ok THEN MatchResponse(j.response, "WaifuAlbumResponse", "unexpected response from get album endpoint")
       ELSE j.err

share_album_response(o) ==
    LET j == SendJson(o, "sending share album request", "converting response")
    IN IF j.ok THEN MatchResponse(j.response, "WaifuGenericResponse", "unexpected response from get album endpoint")
       ELSE j.err

revoke_album_response(o) ==
    LET j == SendJson(o, "sending share album request", "converting response")
    IN IF j.ok THEN MatchResponse(j.response, "WaifuGenericResponse", "unexpected response from get album endpoint")
       ELSE j.err

\* (mutation) 403 is answered as download_file answers it
download_album_response_Forbidden(o) ==
    IF ~o.sent THEN Err(Context(FromReqwest("send"), "sending download part album request"))
    ELSE IF o.status = 200 THEN Ok(o.body)
    ELSE IF o.status = 403 THEN Err(AdHoc("this file requires a password to download"))
    ELSE IF o.body.t = "raw" \/ WaifuApiResponse(o.body).variant = "NoMatch"
        THEN Err(Context(FromReqwest("decode"), "converting error"))
    ELSE IF WaifuApiResponse(o.body).variant = "WaifuError"
        THEN Err(FromWaifuError(ToWaifuError(WaifuApiResponse(o.body).value)))
    ELSE Err(Unexpected("unexpected error responser received from api", WaifuApiResponse(o.body)))

download_album_response(o) ==
    IF ~o.sent THEN Err(Context(FromReqwest("send"), "sending download part album request"))
    ELSE IF o.status = 200 THEN Ok(o.body)
    ELSE IF o.body.t = "raw" \/ WaifuApiResponse(o.body).variant = "NoMatch"
        THEN Err(Context(FromReqwest("decode"), "converting error"))
    ELSE IF WaifuApiResponse(o.body).variant = "WaifuError"
        THEN Err(FromWaifuError(ToWaifuError(WaifuApiResponse(o.body).value)))
    ELSE Err(Unexpected("unexpected error responser received from api", WaifuApiResponse(o.body)))

\* the continuation of the operation suspended at the transport
Resume(operation, password, o) ==
    CASE operation = "create_bucket" -> create_bucket_response(o)
      [] operation = "delete_bucket" -> delete_bucket_response(o)
      [] operation = "get_bucket" -> get_bucket_response(o)
      [] operation = "upload_file" -> upload_file_response(o)
      [] operation = "file_info" -> file_info_response(o)
      [] operation = "update_file" -> update_file_response(o)
      [] operation = "delete_file" -> delete_file_response(o)
      [] operation = "download_file" -> download_file_response(o, password)
      [] operation = "create_album" -> create_album_response(o)
      [] operation = "associate_with_album" -> associate_with_album_response(o)
      [] operation = "disassociate_from_album" -> disassociate_from_album_response(o)
      [] operation = "delete_album" -> delete_album_response(o)
      [] operation = "get_album" -> get_album_response(o)
      [] operation = "share_album" -> share_album_response(o)
      [] operation = "revoke_album" -> revoke_album_response(o)
      [] OTHER -> download_album_response(o)

----------------------------------------------------------------------------
(* The state machine *)

\* longest list of file tokens / file ids passed to an album operation
MaxList == 2

TokenLists == UNION {[1..n -> Strs] : n \in 0..MaxList}
IdLists == UNION {[1..n -> 0..1] : n \in 0..MaxList}

\* nothing is left of an earlier upload
NoKept == [held |-> FALSE]

\* ApiCaller::new: the only field is the transport's client; every operation
\* takes &self, so no operation can write it
ApiCaller_new == [client |-> "reqwest::Client"]

\* the locals of a task that has not called anything yet
NoTask ==
    [req |-> NoRequest, pc |-> "idle", op |-> "none", pw |-> None, wire |-> NoWire,
     sends |-> 0, reads |-> << >>, resp |-> NoResponse, result |-> NoResult,
     kept |-> NoKept]

\* the service holds no file of the caller
NoStore == [held |-> FALSE]

Init ==
    /\ req = NoRequest
    /\ pc = "idle"
    /\ op = "none"
    /\ pw = None
    /\ wire = NoWire
    /\ sends = 0
    /\ reads = << >>
    /\ resp = NoResponse
    /\ result = NoResult
    /\ kept = NoKept
    /\ caller = ApiCaller_new
    /\ parked = NoTask
    /\ store = NoStore

Building(kind) == pc = "idle" /\ req.kind = kind

Set(r) == req' = r /\ UNCHANGED <<pc, op, pw, wire, sends, reads, resp, result, kept, caller, parked, store>>

(* ---- builders of WaifuUploadRequest ---- *)
WaifuUploadRequest_New == Building("none") /\ Set(WaifuUploadRequest_new)
WaifuUploadRequest_file ==
    Building("upload") /\ \E f \in Paths : Set([req EXCEPT !.file = Some(f)])
\* (mutation) url() makes the url the only content source
WaifuUploadRequest_url_ClearsFile ==
    Building("upload") /\ \E u \in Strs : Set([req EXCEPT !.url = Some(u), !.file = None])

WaifuUploadRequest_url ==
    Building("upload") /\ \E u \in Strs : Set([req EXCEPT !.url = Some(u)])
\* (mutation) bytes() stores the buffer and drops the filename
WaifuUploadRequest_bytes_NoFilename ==
    Building("upload") /\ \E b \in Strs, n \in Strs : Set([req EXCEPT !.bytes = Some(b)])

WaifuUploadRequest_bytes ==
    Building("upload") /\ \E b \in Strs, n \in Strs :
        Set([req EXCEPT !.bytes = Some(b), !.filename = Some(n)])
WaifuUploadRequest_bucket ==
    Building("upload") /\ \E t \in Strs : Set([req EXCEPT !.bucket = Some(t)])
WaifuUploadRequest_expires ==
    Building("upload") /\ \E e \in Strs : Set([req EXCEPT !.expires = Some(e)])
WaifuUploadRequest_hide_filename ==
    Building("upload") /\ \E h \in BOOLEAN : Set([req EXCEPT !.hide_filename = h])
WaifuUploadRequest_password ==
    Building("upload") /\ \E p \in Strs : Set([req EXCEPT !.password = Some(p)])
WaifuUploadRequest_one_time_download ==
    Building("upload") /\ \E d \in BOOLEAN : Set([req EXCEPT !.one_time_download = d])

(* ---- builders of WaifuGetRequest ---- *)
WaifuGetRequest_New == Building("none") /\ \E t \in Strs : Set(WaifuGetRequest_new(t))
WaifuGetRequest_formatted ==
    Building("get") /\ \E f \in BOOLEAN : Set([req EXCEPT !.formatted = f])

(* ---- builders of WaifuModificationRequest ---- *)
WaifuModificationRequest_New ==
    Building("none") /\ \E t \in Strs : Set(WaifuModificationRequest_new(t))
WaifuModificationRequest_password ==
    Building("mod") /\ \E p \in Strs : Set([req EXCEPT !.password = Some(p)])
WaifuModificationRequest_previous_password ==
    Building("mod") /\ \E p \in Strs : Set([req EXCEPT !.previous_password = Some(p)])
WaifuModificationRequest_custom_expiry ==
    Building("mod") /\ \E e \in Strs : Set([req EXCEPT !.custom_expiry = Some(e)])
WaifuModificationRequest_hide_filename ==
    Building("mod") /\ \E h \in BOOLEAN : Set([req EXCEPT !.hide_filename = Some(h)])

(* ---- the operations of ApiCaller, up to their send().await ---- *)

\* hand the request to the transport and suspend
Send(operation, w, password) ==
    /\ pc' = "sending"
    /\ op' = operation
    /\ wire' = w
    /\ sends' = sends + 1
    /\ pw' = password
    /\ UNCHANGED <<req, resp, result, kept, caller, parked, store>>

\* return before anything was sent
Fail(operation, e) ==
    /\ pc' = "done"
    /\ op' = operation
    /\ result' = Err(e)
    /\ UNCHANGED <<req, pw, wire, sends, resp, kept, caller, parked, store>>

\* expect() on None: the operation unwinds before anything was sent
Unwind(operation, m) ==
    /\ pc' = "done"
    /\ op' = operation
    /\ result' = Panic(m)
    /\ UNCHANGED <<req, pw, wire, sends, resp, kept, caller, parked, store>>

create_bucket ==
    /\ Building("none")
    /\ UNCHANGED reads
    /\ Send("create_bucket", Request("GET", <<API, "bucket", "create">>, << >>, << >>, NoBody), None)

delete_bucket ==
    /\ Building("none")
    /\ UNCHANGED reads
    /\ \E token \in Strs :
         Send("delete_bucket", Request("DELETE", <<API, "bucket", token>>, << >>, << >>, NoBody), None)

get_bucket ==
    /\ Building("none")
    /\ UNCHANGED reads
    /\ \E token \in Strs :
         Send("get_bucket",
              Request("POST", <<API, "bucket", "get">>, << >>, JsonHeader,
                      JsonBody([bucket_token |-> token])), None)

upload_file ==
    /\ Building("upload")
    /\ \E rd \in (IF IsSome(req.file) THEN ReadOutcomes(Unwrap(req.file)) ELSE {None}) :
         LET b == UploadBody(req, rd)
         IN /\ reads' = IF IsSome(req.file) THEN <<rd>> ELSE << >>
            /\ IF b.ok
                 THEN Send("upload_file",
                           Request("PUT", UploadUrl(req), UploadQuery(req), << >>, b.body), None)
                 ELSE IF "err" \in DOMAIN b THEN Fail("upload_file", b.err)
                 ELSE Unwind("upload_file", b.panic)

file_info ==
    /\ Building("get")
    /\ UNCHANGED reads
    /\ Send("file_info",
            Request("GET", <<API, req.token>>, << <<"formatted", BoolStr(req.formatted)>> >>,
                    << >>, NoBody), None)

update_file ==
    /\ Building("mod")
    /\ UNCHANGED reads
    /\ Send("update_file",
            Request("PATCH", <<API, req.token>>, << >>, JsonHeader,
                    JsonBody(SerializeModification(req))), None)

delete_file ==
    /\ Building("none")
    /\ UNCHANGED reads
    /\ \E token \in Strs :
         Send("delete_file", Request("DELETE", <<API, token>>, << >>, << >>, NoBody), None)

\* the request of download_file: GET url, the password in the x-password header
DownloadRequest(url, password) ==
    Request("GET", <<url>>, << >>,
            IF IsSome(password) THEN << <<"x-password", Unwrap(password)>> >> ELSE << >>,
            NoBody)

\* download_file, had the ApiCaller kept the last password given and used it
\* for a call that gives none
download_file_SharedPassword ==
    /\ Building("none")
    /\ UNCHANGED reads
    /\ \E url \in Strs, password \in Opt(Strs) :
         LET used == IF IsSome(password) \/ ~("password" \in DOMAIN caller)
                       THEN password ELSE Some(caller.password)
         IN /\ pc' = "sending"
            /\ op' = "download_file"
            /\ wire' = DownloadRequest(url, used)
            /\ sends' = sends + 1
            /\ pw' = password
            /\ caller' = IF IsSome(password)
                            THEN [client |-> caller.client, password |-> Unwrap(password)]
                            ELSE caller
            /\ UNCHANGED <<req, resp, result, kept, parked, store>>

download_file ==
    /\ Building("none")
    /\ UNCHANGED reads
    /\ \E url \in Strs, password \in Opt(Strs) :
         Send("download_file", DownloadRequest(url, password), password)

create_album ==
    /\ Building("none")
    /\ UNCHANGED reads
    /\ \E bucket_token \in Strs, album_name \in Strs :
         Send("create_album",
              Request("POST", <<API, "album", bucket_token>>, << >>, JsonHeader,
                      JsonBody([name |-> album_name])), None)

associate_with_album ==
    /\ Building("none")
    /\ UNCHANGED reads
    /\ \E album_token \in Strs, file_tokens \in TokenLists :
         Send("associate_with_album",
              Request("POST", <<API, "album", album_token, "associate">>, << >>, JsonHeader,
                      JsonBody([fileTokens |-> file_tokens])), None)

disassociate_from_album ==
    /\ Building("none")
    /\ UNCHANGED reads
    /\ \E album_token \in Strs, file_tokens \in TokenLists :
         Send("disassociate_from_album",
              Request("POST", <<API, "album", album_token, "disassociate">>, << >>, JsonHeader,
                      JsonBody([fileTokens |-> file_tokens])), None)

delete_album ==
    /\ Building("none")
    /\ UNCHANGED reads
    /\ \E album_token \in Strs, delete_files \in BOOLEAN :
         Send("delete_album",
              Request("DELETE", <<API, "album", album_token>>,
                      << <<"deleteFiles", BoolStr(delete_files)>> >>, << >>, NoBody), None)

get_album ==
    /\ Building("none")
    /\ UNCHANGED reads
    /\ \E album_token \in Strs :
         Send("get_album", Request("GET", <<API, "album", album_token>>, << >>, << >>, NoBody), None)

share_album ==
    /\ Building("none")
    /\ UNCHANGED reads
    /\ \E album_token \in Strs :
         Send("share_album",
              Request("GET", <<API, "album", "share", album_token>>, << >>, << >>, NoBody), None)

revoke_album ==
    /\ Building("none")
    /\ UNCHANGED reads
    /\ \E album_token \in Strs :
         Send("revoke_album",
              Request("GET", <<API, "album", "revoke", album_token>>, << >>, << >>, NoBody), None)

\* the argument file_ids stays in req until the request has gone out
download_album ==
    /\ Building("none")
    /\ UNCHANGED reads
    /\ \E album_token \in Strs, file_ids \in Opt(IdLists) :
         /\ req' = [kind |-> "download_album", file_ids |-> file_ids]
         /\ pc' = "sending"
         /\ op' = "download_album"
         /\ wire' = Request("POST", <<API, "album", "download", album_token>>, << >>, JsonHeader,
                             JsonArray(IF IsSome(file_ids) THEN Unwrap(file_ids) ELSE << >>))
         /\ sends' = sends + 1
         /\ pw' = None
         /\ UNCHANGED <<resp, result, kept, caller, parked, store>>

(* ---- a caller that downloads what it has just uploaded ---- *)

\* what a caller that uploaded one file or one buffer holds on to (the
\* content and the password it gave), next to the body that went out
Uploaded(r, rds, w) ==
    IF IsNone(r.url) /\ (IsSome(r.file) # IsSome(r.bytes))
      THEN [held |-> TRUE,
            content |-> IF IsSome(r.file) THEN Unwrap(rds[1]) ELSE Unwrap(r.bytes),
            password |-> r.password,
            body |-> w.body]
      ELSE NoKept

\* upload_file has returned a file entry: the caller downloads its url, with
\* the password of the upload
download_uploaded ==
    /\ pc = "done" /\ op = "upload_file" /\ result.kind = "Ok" /\ kept.held
    /\ req' = NoRequest
    /\ pc' = "sending"
    /\ op' = "download_file"
    /\ pw' = kept.password
    /\ wire' = DownloadRequest(result.value["url"].s, kept.password)
    /\ sends' = 1
    /\ reads' = << >>
    /\ resp' = NoResponse
    /\ result' = NoResult
    /\ UNCHANGED <<kept, caller, parked, store>>

(* ---- the transport ---- *)

\* the transport has taken the request: the request value was moved into it
\* and is gone from the caller, the operation stays suspended in send().await
Transmit ==
    /\ pc = "sending"
    /\ pc' = "waiting"
    /\ wire' = NoWire
    /\ req' = NoRequest
    /\ kept' = IF op = "upload_file" THEN Uploaded(req, reads, wire) ELSE kept
    /\ UNCHANGED <<op, pw, sends, reads, resp, result, caller, parked, store>>

\* the transport answers with one of the outcomes O and the suspended
\* operation runs to its end
Deliver(O) ==
    /\ pc = "waiting"
    /\ \E o \in O :
         /\ resp' = o
         /\ result' = Resume(op, pw, o)
    /\ pc' = "done"
    /\ UNCHANGED <<req, op, pw, wire, sends, reads, kept, caller, parked, store>>

Receive == Deliver(Outcomes)

\* the caller takes the result; the next call starts from scratch
Return ==
    /\ pc = "done"
    /\ req' = NoRequest
    /\ pc' = "idle"
    /\ op' = "none"
    /\ pw' = None
    /\ wire' = NoWire
    /\ sends' = 0
    /\ reads' = << >>
    /\ resp' = NoResponse
    /\ result' = NoResult
    /\ kept' = NoKept
    /\ UNCHANGED <<caller, parked, store>>

Next ==
    \/ WaifuUploadRequest_New
    \/ WaifuUploadRequest_file
    \/ WaifuUploadRequest_url
    \/ WaifuUploadRequest_bytes
    \/ WaifuUploadRequest_bucket
    \/ WaifuUploadRequest_expires
    \/ WaifuUploadRequest_hide_filename
    \/ WaifuUploadRequest_password
    \/ WaifuUploadRequest_one_time_download
    \/ WaifuGetRequest_New
    \/ WaifuGetRequest_formatted
    \/ WaifuModificationRequest_New
    \/ WaifuModificationRequest_password
    \/ WaifuModificationRequest_previous_password
    \/ WaifuModificationRequest_custom_expiry
    \/ WaifuModificationRequest_hide_filename
    \/ create_bucket
    \/ delete_bucket
    \/ get_bucket
    \/ upload_file
    \/ file_info
    \/ update_file
    \/ delete_file
    \/ download_file
    \/ create_album
    \/ associate_with_album
    \/ disassociate_from_album
    \/ delete_album
    \/ get_album
    \/ share_album
    \/ revoke_album
    \/ download_album
    \/ download_uploaded
    \/ Transmit
    \/ Receive
    \/ Return

Spec == Init /\ [][Next]_vars

----------------------------------------------------------------------------
(* Classification alone: every object over the field names of the response *)
(* types, in any combination, each field carrying a value of its type,     *)
(* and the bodies of WireBodies (dropped and ill-typed fields, arrays,     *)
(* scalars, non-JSON) on top.                                              *)

AllFieldNames ==
    {"token", "url", "bucket", "album", "views", "retentionPeriod", "options", "files",
     "albums", "bucketToken", "publicToken", "name", "success", "description", "message",
     "status"}

WellTyped(k) ==
    CASE k = "views" -> JNum(3)
      [] k = "status" -> JNum(404)
      [] k = "success" -> JBool(TRUE)
      [] k = "album" -> JObj("WaifuAlbumMetadata")
      [] k = "options" -> JObj("WaifuFileOptions")
      [] k = "files" -> JArr("WaifuFileEntry", 1)
      [] k = "albums" -> JArr("WaifuAlbumMetadata", 1)
      [] OTHER -> JStr("s1")

AllBodies == {ObjBody([k \in S |-> WellTyped(k)]) : S \in SUBSET AllFieldNames} \cup WireBodies

\* serde_json::from_slice::<WaifuApiResponse>: bytes that are no JSON fail
\* like JSON that fits no variant
from_json(body) == IF body.t = "raw" THEN NoMatch ELSE WaifuApiResponse(body)

ClassifyInit ==
    /\ req = NoRequest
    /\ pc = "waiting"
    /\ op = "classify"
    /\ pw = None
    /\ wire = NoWire
    /\ sends = 0
    /\ reads = << >>
    /\ resp \in {Response(200, b) : b \in AllBodies}
    /\ result = NoResult
    /\ kept = NoKept
    /\ caller = ApiCaller_new
    /\ parked = NoTask
    /\ store = NoStore

Classify ==
    /\ pc = "waiting"
    /\ op = "classify"
    /\ result' = from_json(resp.body)
    /\ pc' = "done"
    /\ UNCHANGED <<req, op, pw, wire, sends, reads, resp, kept, caller, parked, store>>

ClassifyNext == Classify

SpecClassify == ClassifyInit /\ [][ClassifyNext]_vars

----------------------------------------------------------------------------
(* Two tasks that share one ApiCaller: each has its own locals, the executor *)
(* runs one of them at a time and may switch at any step.                    *)

\* the locals of the task that is running
Running ==
    [req |-> req, pc |-> pc, op |-> op, pw |-> pw, wire |-> wire, sends |-> sends,
     reads |-> reads, resp |-> resp, result |-> result, kept |-> kept]

\* the executor switches tasks: the locals of the running task are parked and
\* those of the other task come back; the ApiCaller is borrowed by both
Yield ==
    /\ parked' = Running
    /\ req' = parked.req
    /\ pc' = parked.pc
    /\ op' = parked.op
    /\ pw' = parked.pw
    /\ wire' = parked.wire
    /\ sends' = parked.sends
    /\ reads' = parked.reads
    /\ resp' = parked.resp
    /\ result' = parked.result
    /\ kept' = parked.kept
    /\ UNCHANGED <<caller, store>>

\* the answers the two tasks get: a failed send, one body of each of the
\* shapes the three operations tell apart, under a good and a bad status
SharedOutcomes ==
    {SendFailed,
     Response(200, ObjBody(FileObject)),
     Response(200, ObjBody(BucketObject)),
     Response(404, ObjBody(ErrorObject("s1", 404))),
     Response(200, RawBody("s1")),
     Response(403, RawBody("s1"))}

ReceiveShared == Deliver(SharedOutcomes)

ConcurrentNext ==
    \/ WaifuGetRequest_New
    \/ WaifuGetRequest_formatted
    \/ create_bucket
    \/ file_info
    \/ download_file
    \/ Transmit
    \/ ReceiveShared
    \/ Return
    \/ Yield

SpecConcurrent == Init /\ [][ConcurrentNext]_vars

----------------------------------------------------------------------------
(* One caller against a service that holds the file it uploads, answers    *)
(* every request about it with the file's entry, and applies to the file   *)
(* only the fields present in a modification body.                         *)

\* WaifuFileOptions inside a JSON value: its three flags are the bits of n
EncodeOptions(o) ==
    [t |-> "obj", s |-> "WaifuFileOptions",
     n |-> (IF o.hideFilename THEN 1 ELSE 0) + (IF o.oneTimeDownload THEN 2 ELSE 0)
           + (IF o.protected THEN 4 ELSE 0)]

\* Deserialize of WaifuFileOptions
DecodeOptions(v) ==
    [hideFilename |-> v.n % 2 = 1,
     oneTimeDownload |-> (v.n \div 2) % 2 = 1,
     protected |-> (v.n \div 4) % 2 = 1]

\* a bytes upload with its filename, with or without a password
PatchUploads ==
    {[WaifuUploadRequest_new EXCEPT !.bytes = Some(b), !.filename = Some(f), !.password = p] :
        b \in Strs, f \in Strs, p \in Opt(Strs)}

\* the modification request sets a new password and nothing else
OnlyPassword(r) ==
    /\ IsSome(r.password)
    /\ IsNone(r.previous_password) /\ IsNone(r.custom_expiry) /\ IsNone(r.hide_filename)

\* the request names the file the service holds
Addressed(st, w) == st.held /\ w.url = <<API, FileObject["token"].s>>

\* the service applies the fields present in the body, and no other
ApplyModification(o, j) ==
    [hideFilename |-> IF "hideFilename" \in DOMAIN j /\ j["hideFilename"].t = "bool"
                        THEN j["hideFilename"].n = 1 ELSE o.hideFilename,
     oneTimeDownload |-> o.oneTimeDownload,
     protected |-> IF "password" \in DOMAIN j /\ j["password"].t = "str"
                     THEN TRUE ELSE o.protected]

\* the service's file after the request: an upload creates it (protected when
\* a password part came, the other flags as the service chooses h and otd),
\* a modification of it changes its options; updates records what the caller
\* has asked of update_file since the upload
Served(st, operation, r, w, h, otd) ==
    CASE operation = "upload_file" ->
           LET o == [hideFilename |-> h, oneTimeDownload |-> otd,
                     protected |-> \E i \in DOMAIN w.body.parts :
                                      w.body.parts[i].name = "password"]
           IN [held |-> TRUE, options |-> o, first |-> o, updates |-> "none"]
      [] operation = "update_file" /\ Addressed(st, w) ->
           [st EXCEPT !.options = ApplyModification(@, w.body.json),
                      !.updates = IF @ = "none" /\ OnlyPassword(r) THEN "password only"
                                  ELSE "other"]
      [] OTHER -> st

\* the body the service answers with: the entry of its file, or not found
Answer(st, operation, w) ==
    IF operation = "upload_file" \/ Addressed(st, w)
      THEN Response(200, ObjBody(With(FileObject, "options", EncodeOptions(st.options))))
      ELSE Response(404, ObjBody(ErrorObject("s1", 404)))

\* the request reaches the service, the service acts on it and answers, and
\* the suspended operation runs to its end
service ==
    /\ pc = "sending"
    /\ op \in {"upload_file", "update_file", "file_info"}
    /\ \E h \in BOOLEAN, otd \in BOOLEAN :
         LET st == Served(store, op, req, wire, h, otd)
             o == Answer(st, op, wire)
         IN /\ store' = st
            /\ resp' = o
            /\ result' = Resume(op, pw, o)
    /\ pc' = "done"
    /\ wire' = NoWire
    /\ req' = NoRequest
    /\ kept' = IF op = "upload_file" THEN Uploaded(req, reads, wire) ELSE kept
    /\ UNCHANGED <<op, pw, sends, reads, caller, parked>>

PatchInit ==
    /\ req \in PatchUploads
    /\ pc = "idle"
    /\ op = "none"
    /\ pw = None
    /\ wire = NoWire
    /\ sends = 0
    /\ reads = << >>
    /\ resp = NoResponse
    /\ result = NoResult
    /\ kept = NoKept
    /\ caller = ApiCaller_new
    /\ parked = NoTask
    /\ store = NoStore

PatchNext ==
    \/ upload_file
    \/ WaifuModificationRequest_New
    \/ WaifuModificationRequest_password
    \/ WaifuModificationRequest_previous_password
    \/ WaifuModificationRequest_custom_expiry
    \/ WaifuModificationRequest_hide_filename
    \/ update_file
    \/ WaifuGetRequest_New
    \/ WaifuGetRequest_formatted
    \/ file_info
    \/ service
    \/ Return

SpecPatch == PatchInit /\ [][PatchNext]_vars

----------------------------------------------------------------------------
(* Properties *)

\* how many of the three content sources a WaifuUploadRequest has set
NumSources(r) ==
    (IF IsSome(r.file) THEN 1 ELSE 0) + (IF IsSome(r.url) THEN 1 ELSE 0)
    + (IF IsSome(r.bytes) THEN 1 ELSE 0)

\* the values a query string carries under one name, in order
QueryValues(q, name) ==
    LET sel == SelectSeq(q, LAMBDA p : p[1] = name)
    IN [i \in 1..Len(sel) |-> sel[i][2]]

\* upload_file has been called on the request in req and has not returned to idle
UploadCalled == op = "upload_file" /\ req.kind = "upload"

DownloadOps == {"download_file", "download_album"}

\* the response is taken as bytes or as a password error, whatever its body
StatusDecides ==
    \/ op \in DownloadOps /\ resp.status = 200
    \/ op = "download_file" /\ resp.status = 403

\* C1: an upload request with more than one content source set makes
\* upload_file fail with an error before any transport call.
C1_MultipleSourcesFail ==
    (UploadCalled /\ NumSources(req) > 1)
        => (pc = "done" /\ result.kind = "Err" /\ sends = 0 /\ wire = NoWire)

\* C2: an upload request with no content source set, whatever its other
\* options, makes upload_file return an error, and nothing is sent.
C2_NoSourceFails ==
    (UploadCalled /\ NumSources(req) = 0)
        => (pc = "done" /\ result.kind = "Err" /\ sends = 0 /\ wire = NoWire)

C2_Witness ==
    /\ UploadCalled /\ NumSources(req) = 0
    /\ IsSome(req.password) /\ IsSome(req.bucket) /\ req.one_time_download
    /\ pc = "done" /\ result.kind = "Err"

\* helpers on a JSON object body
Has(b, k) == b.t = "obj" /\ k \in DOMAIN b.f
HasStr(b, k) == Has(b, k) /\ b.f[k].t = "str"

ErrorShape(b) ==
    /\ b.t = "obj"
    /\ DOMAIN b.f = {"name", "message", "status"}
    /\ b.f["name"].t = "str" /\ b.f["message"].t = "str" /\ b.f["status"].t = "num"

\* the operation returned a failure from which the caller recovers the
\* WaifuError with exactly the fields of the body
ReturnsWaifuError(b) ==
    /\ result.kind = "Err"
    /\ Downcast(result.error)
         = Some([name |-> b.f["name"].s, message |-> b.f["message"].s,
                 status |-> b.f["status"].n])

\* C4: on every operation a body {name, message, status} (status a u16, as
\* every HTTP status is) comes back as a failure carrying the WaifuError
\* with exactly those values.
C4_ErrorBodyAlwaysReturned ==
    (pc = "done" /\ op # "classify" /\ resp.sent /\ ErrorShape(resp.body)
        /\ resp.body.f["status"].n \in 0..U16Max)
        => ReturnsWaifuError(resp.body)

\* C4 (amended): the same on every operation except where the HTTP status
\* decides before the body is read (download_file on 200 and 403,
\* download_album on 200).
C4_ErrorBodyReturned ==
    (pc = "done" /\ op # "classify" /\ resp.sent /\ ErrorShape(resp.body)
        /\ resp.body.f["status"].n \in 0..U16Max
        /\ ~StatusDecides)
        => ReturnsWaifuError(resp.body)

C4_Witness ==
    /\ pc = "done" /\ op = "upload_file" /\ resp.sent
    /\ resp.body = ObjBody(ErrorObject("s2", 404))
    /\ result.kind = "Err"
    /\ result.error.context = <<"parsing waifu api response">>
    /\ Downcast(result.error) = Some([name |-> "s1", message |-> "s2", status |-> 404])

\* C5: the JSON body of update_file has exactly the fields that were set,
\* under password, previousPassword, customExpiry and hideFilename; nothing
\* is null, the token is no key of it, and hide_filename(true) alone gives
\* {"hideFilename": true}.
C5_ModificationBody ==
    (pc = "sending" /\ op = "update_file") =>
        /\ wire.body.enc = "json"
        /\ LET j == wire.body.json
           IN /\ DOMAIN j \subseteq {"password", "previousPassword", "customExpiry", "hideFilename"}
              /\ \A k \in DOMAIN j : j[k].t # "null"
              /\ ("password" \in DOMAIN j) = IsSome(req.password)
              /\ ("previousPassword" \in DOMAIN j) = IsSome(req.previous_password)
              /\ ("customExpiry" \in DOMAIN j) = IsSome(req.custom_expiry)
              /\ ("hideFilename" \in DOMAIN j) = IsSome(req.hide_filename)
              /\ IsSome(req.password) => j["password"] = JStr(Unwrap(req.password))
              /\ IsSome(req.previous_password)
                    => j["previousPassword"] = JStr(Unwrap(req.previous_password))
              /\ IsSome(req.custom_expiry) => j["customExpiry"] = JStr(Unwrap(req.custom_expiry))
              /\ IsSome(req.hide_filename) => j["hideFilename"] = JBool(Unwrap(req.hide_filename))
              /\ (req = [WaifuModificationRequest_new(req.token) EXCEPT !.hide_filename = Some(TRUE)])
                    => j = [hideFilename |-> JBool(TRUE)]

C5_Witness ==
    /\ pc = "sending" /\ op = "update_file"
    /\ req = [WaifuModificationRequest_new("s1") EXCEPT !.hide_filename = Some(TRUE)]
    /\ wire.body = JsonBody([hideFilename |-> JBool(TRUE)])

PasswordRequired == "this file requires a password to download"
PasswordIncorrect == "supplied password is incorrect"

\* C6: on status 403 download_file fails with the "password required" error
\* when no password was passed and with the different "password incorrect"
\* error when one was; the body of the response plays no part.
C6_Download403 ==
    (pc = "done" /\ op = "download_file" /\ resp.sent /\ resp.status = 403) =>
        /\ result.kind = "Err"
        /\ IsNone(Downcast(result.error))
        /\ result.error.text = (IF IsSome(pw) THEN PasswordIncorrect ELSE PasswordRequired)
        /\ PasswordIncorrect # PasswordRequired

C6_Witness ==
    /\ pc = "done" /\ op = "download_file" /\ resp.sent /\ resp.status = 403
    /\ IsNone(pw)
    /\ resp.body = ObjBody(ErrorObject("s1", 404))
    /\ result.error.text = PasswordRequired

\* the one variant each JSON endpoint returns as success
LegalVariant(operation) ==
    CASE operation \in {"create_bucket", "get_bucket"} -> "WaifuBucketResponse"
      [] operation \in {"create_album", "associate_with_album", "disassociate_from_album",
                        "get_album"} -> "WaifuAlbumResponse"
      [] operation \in {"delete_album", "share_album", "revoke_album"} -> "WaifuGenericResponse"
      [] operation \in {"delete_file", "delete_bucket"} -> "Delete"
      [] OTHER -> "WaifuFileResponse"

JsonOps ==
    {"create_bucket", "delete_bucket", "get_bucket", "upload_file", "file_info", "update_file",
     "delete_file", "create_album", "associate_with_album", "disassociate_from_album",
     "delete_album", "get_album", "share_album", "revoke_album"}

\* the response classified as a variant that this endpoint may not return
WrongVariant ==
    /\ pc = "done" /\ op \in JsonOps /\ resp.sent
    /\ from_json(resp.body).variant \notin {"NoMatch", "WaifuError", LegalVariant(op)}

\* C7: on every endpoint a valid variant that is not legal there is
\* returned to the caller as an error: never a success, never a fault the
\* caller cannot recover from.
C7_WrongVariantIsReturnedError ==
    WrongVariant => (result.kind = "Err" /\ IsNone(Downcast(result.error)))

\* C8: a body that matches none of the six shapes makes the operation fail
\* with an error that carries the raw body.
C8_MalformedCarriesBody ==
    (pc = "done" /\ op # "classify" /\ resp.sent /\ from_json(resp.body).variant = "NoMatch")
        => (result.kind = "Err" /\ "body" \in DOMAIN result.error
            /\ result.error.body = resp.body)

\* C8 (amended): a body that matches none of the six shapes makes the
\* operation fail with the transport library's decode error under the
\* operation's conversion context; the error is no WaifuError and holds
\* nothing of the body.  (Not where the HTTP status decides first.)
C8_MalformedIsDecodeError ==
    (pc = "done" /\ op # "classify" /\ resp.sent /\ from_json(resp.body).variant = "NoMatch"
        /\ ~StatusDecides)
        => /\ result.kind = "Err"
           /\ result.error.root = "reqwest" /\ result.error.text = "decode"
           /\ Len(result.error.context) = 1
           /\ IsNone(Downcast(result.error))
           /\ DOMAIN result.error = {"root", "text", "waifu", "context"}

C8_Witness ==
    /\ pc = "done" /\ op = "file_info" /\ resp.sent
    /\ resp.body = ObjBody(Without(FileObject, "views"))
    /\ result = Err(Context(FromReqwest("decode"), "converting response"))

\* C9: an upload request at the transport carries hide_filename and
\* one_time_download, each once, each with the request's flag.
C9_FlagsInQuery ==
    (pc = "sending" /\ op = "upload_file") =>
        /\ QueryValues(wire.query, "hide_filename") = <<BoolStr(req.hide_filename)>>
        /\ QueryValues(wire.query, "one_time_download") = <<BoolStr(req.one_time_download)>>

\* C10: an upload request at the transport carries expires exactly when an
\* expiry was set on the request, and then with the value that was set.
C10_ExpiresIffSet ==
    (pc = "sending" /\ op = "upload_file") =>
        QueryValues(wire.query, "expires") = req.expires

C10_Witness ==
    /\ pc = "sending" /\ op = "upload_file"
    /\ req.expires = Some("s2")
    /\ QueryValues(wire.query, "expires") = <<"s2">>

----------------------------------------------------------------------------
(* The request upload_file hands to the transport *)

\* upload_file is suspended in send() and the request value is still at hand
UploadSending == pc = "sending" /\ op = "upload_file"

\* the elements of an Option or of a sequence, as a set
Elems(q) == {q[i] : i \in DOMAIN q}

\* every string of a request body; the bytes of the file part are left out
\* when withData is FALSE
BodyStrings(b, withData) ==
    CASE b.enc = "form" -> UNION {{f[1], f[2]} : f \in Elems(b.fields)}
      [] b.enc = "multipart" ->
           UNION {{p.name} \cup Elems(p.filename)
                  \cup (IF withData \/ IsNone(p.filename) THEN {p.data} ELSE {})
                  : p \in Elems(b.parts)}
      [] OTHER -> {}

\* every string of a list of pairs (query string, headers)
PairStrings(q) == UNION {{p[1], p[2]} : p \in Elems(q)}

\* every string an upload request holds outside its bucket field
NonBucketStrings(r) ==
    Elems(r.url) \cup Elems(r.bytes) \cup Elems(r.filename) \cup Elems(r.expires)
    \cup Elems(r.password) \cup UNION {Elems(f) : f \in Elems(r.file)}

\* C11: upload_file sends a PUT to {API}/{bucket} when a bucket token is set
\* and to API alone when none is set; a bucket token that is no other field
\* of the request occurs nowhere in the query string, the headers or the body
\* (the bytes read from disk, which are no part of the request, aside).
C11_BucketInPathOnly ==
    UploadSending =>
        /\ wire.method = "PUT"
        /\ wire.url = IF IsSome(req.bucket) THEN <<API, Unwrap(req.bucket)>> ELSE <<API>>
        /\ \A t \in Elems(req.bucket) \ NonBucketStrings(req) :
              t \notin PairStrings(wire.query) \cup PairStrings(wire.headers)
                       \cup BodyStrings(wire.body, IsNone(req.file))

C11_Witness ==
    /\ UploadSending
    /\ IsSome(req.bucket) /\ IsSome(req.password) /\ IsSome(req.expires)
    /\ Unwrap(req.bucket) \notin NonBucketStrings(req)
    /\ wire.url = <<API, Unwrap(req.bucket)>>

\* the content sources of an upload request
FileOnly(r) == IsSome(r.file) /\ IsNone(r.url) /\ IsNone(r.bytes)
UrlOnly(r) == IsNone(r.file) /\ IsSome(r.url) /\ IsNone(r.bytes)
BytesOnly(r) == IsNone(r.file) /\ IsNone(r.url) /\ IsSome(r.bytes) /\ IsSome(r.filename)

\* the multipart text part password, when the request sets a password
PasswordParts(r) ==
    IF IsSome(r.password)
      THEN << [name |-> "password", filename |-> None, data |-> Unwrap(r.password)] >>
      ELSE << >>

\* C12: when a local file is the only content source, the body sent is
\* multipart: one part named file with the bytes read from disk and the last
\* component of the path as its filename, followed by a text part named
\* password exactly when a password is set, and by nothing else.
C12_FileBranchMultipart ==
    (UploadSending /\ FileOnly(req)) =>
        /\ wire.body.enc = "multipart"
        /\ Len(reads) = 1 /\ IsSome(reads[1])
        /\ wire.body.parts =
              << [name |-> "file",
                  filename |-> Some(Unwrap(req.file)[Len(Unwrap(req.file))]),
                  data |-> Unwrap(reads[1])] >> \o PasswordParts(req)

C12_Witness ==
    /\ UploadSending /\ FileOnly(req)
    /\ Len(Unwrap(req.file)) = 2
    /\ IsSome(req.password)
    /\ Len(wire.body.parts) = 2
    /\ wire.body.parts[1].filename # Some(wire.body.parts[1].data)

\* C13: when a remote URL is the only content source, the body sent is
\* form-encoded (no multipart body) with the field url, followed by the field
\* password exactly when a password is set, and no file is read.
C13_UrlBranchForm ==
    (UploadSending /\ UrlOnly(req)) =>
        /\ wire.body.enc = "form"
        /\ wire.body.fields =
              << <<"url", Unwrap(req.url)>> >>
              \o (IF IsSome(req.password)
                    THEN << <<"password", Unwrap(req.password)>> >> ELSE << >>)
        /\ reads = << >>

C13_Witness ==
    /\ UploadSending /\ UrlOnly(req)
    /\ IsSome(req.password)
    /\ Len(wire.body.fields) = 2
    /\ Unwrap(req.url) # Unwrap(req.password)

\* C14: when raw bytes with a filename are the only content source, the body
\* sent is the multipart encoding of the local-file branch: one part named
\* file with the given bytes and the given filename, followed by a text part
\* named password exactly when a password is set; no disk read takes place.
C14_BytesBranchMultipart ==
    (UploadSending /\ BytesOnly(req)) =>
        /\ wire.body.enc = "multipart"
        /\ wire.body.parts =
              << [name |-> "file", filename |-> req.filename, data |-> Unwrap(req.bytes)] >>
              \o PasswordParts(req)
        /\ reads = << >>

C14_Witness ==
    /\ UploadSending /\ BytesOnly(req)
    /\ IsSome(req.password)
    /\ Len(wire.body.parts) = 2
    /\ Unwrap(req.bytes) # Unwrap(req.filename)

\* the file of the upload request was read and the read failed
ReadFailed == Len(reads) = 1 /\ IsNone(reads[1])

\* the path of the upload request ends in no file name
InvalidPath(r) == IsSome(r.file) /\ Unwrap(r.file)[Len(Unwrap(r.file))] = ".."

\* C15: when the local file named by an upload request cannot be read, or
\* its path has no file name, upload_file returns an error and nothing is
\* handed to the transport.
C15_UnreadableFileFails ==
    (UploadCalled /\ (ReadFailed \/ InvalidPath(req))) =>
        /\ pc = "done"
        /\ result.kind = "Err"
        /\ result.error.root = "io"
        /\ sends = 0 /\ wire = NoWire /\ resp = NoResponse

C15_Witness ==
    /\ UploadCalled /\ ReadFailed /\ ~InvalidPath(req)
    /\ result.kind = "Err" /\ sends = 0

----------------------------------------------------------------------------
(* download_file *)

\* download_file has returned on a response whose status is neither 200 nor 403
DownloadOtherStatus ==
    pc = "done" /\ op = "download_file" /\ resp.sent /\ resp.status \notin {200, 403}

\* field k of a body that deserializes as a struct: by name in an object, by
\* position i in an array
BodyField(b, k, i) == IF b.t = "obj" THEN b.f[k] ELSE b.e[i]

\* C16: on a status other than 200 and 403 download_file never returns
\* bytes: a body that is the service's error comes back as the WaifuError
\* with that name, message and status, and every other body (another
\* variant, or no variant at all) as an error that carries no WaifuError.
C16_DownloadOtherStatus ==
    DownloadOtherStatus =>
        /\ result.kind = "Err"
        /\ (ErrorShape(resp.body) /\ resp.body.f["status"].n \in 0..U16Max)
              => ReturnsWaifuError(resp.body)
        /\ IF from_json(resp.body).variant = "WaifuError"
             THEN Downcast(result.error)
                    = Some([name |-> BodyField(resp.body, "name", 1).s,
                            message |-> BodyField(resp.body, "message", 2).s,
                            status |-> BodyField(resp.body, "status", 3).n])
             ELSE Downcast(result.error) = None

C16_Witness ==
    /\ DownloadOtherStatus
    /\ ErrorShape(resp.body) /\ resp.body.f["status"].n = 400
    /\ resp.body.f["name"].s # resp.body.f["message"].s
    /\ ReturnsWaifuError(resp.body)

\* download_file has returned on a response of status 200
Downloaded == pc = "done" /\ op = "download_file" /\ resp.sent /\ resp.status = 200

\* the download that follows an upload was answered, with status 200, by
\* the bytes of the file part the service had received
ServedAsStored ==
    /\ Downloaded /\ kept.held
    /\ kept.body.enc = "multipart" /\ Len(kept.body.parts) >= 1
    /\ resp.body = RawBody(kept.body.parts[1].data)

\* C17: on status 200 download_file returns exactly the response body,
\* whatever it is; and when a caller uploads one file or one buffer and
\* then downloads the returned url with the password of the upload, a
\* service that answers with the bytes it received in the file part makes
\* download_file return the content the caller uploaded.
C17_DownloadReturnsBody ==
    /\ Downloaded => result = Ok(resp.body)
    /\ (op = "download_file" /\ kept.held) => pw = kept.password
    /\ (op = "download_file" /\ kept.held /\ pc = "sending") =>
          wire.headers = IF IsSome(kept.password)
                           THEN << <<"x-password", Unwrap(kept.password)>> >> ELSE << >>
    /\ ServedAsStored => result = Ok(RawBody(kept.content))

C17_Witness ==
    /\ ServedAsStored
    /\ IsSome(kept.password)
    /\ kept.body.parts[1].filename # Some(kept.content)
    /\ result = Ok(RawBody(kept.content))

----------------------------------------------------------------------------
(* One transport call per operation *)

\* C18: every operation hands at most one request to the transport,
\* whatever the transport answers, and once the transport has answered (or
\* has failed) the call is over and has given its caller a result, a value
\* or an error.
C18_OneSendThenResult ==
    /\ sends <= 1
    /\ pc \in {"sending", "waiting"} => sends = 1
    /\ resp # NoResponse => (pc = "done" /\ wire = NoWire /\ result.kind \in {"Ok", "Err"})

----------------------------------------------------------------------------
(* Classification of a response body *)

Classified == op = "classify" /\ pc = "done"

\* the variants of the envelope that are structs, in declaration order
StructVariants ==
    << [variant |-> "WaifuFileResponse", struct |-> WaifuFileEntry],
       [variant |-> "WaifuAlbumResponse", struct |-> WaifuAlbumEntry],
       [variant |-> "WaifuBucketResponse", struct |-> WaifuBucketEntry],
       [variant |-> "WaifuGenericResponse", struct |-> WaifuGenericMessage],
       [variant |-> "WaifuError", struct |-> WaifuError] >>

\* the struct variants a body deserializes to, taken one by one
Fits(b) == {i \in DOMAIN StructVariants : Matches(StructVariants[i].struct, b)}

IsBoolBody(b) == b.t = "val" /\ b.v.t = "bool"

\* C19: classifying a body yields one outcome, fixed by the body: when the
\* body fits one or several of the five struct variants, the first of them
\* in declaration order with the fields of the body; a bare boolean
\* otherwise gives Delete; every other body, JSON or not, is a failure.
C19_OneOutcome ==
    Classified =>
        LET b == resp.body
            first == CHOOSE i \in Fits(b) : \A j \in Fits(b) : i <= j
        IN /\ result.variant \in {"WaifuFileResponse", "WaifuAlbumResponse",
                                   "WaifuBucketResponse", "WaifuGenericResponse",
                                   "WaifuError", "Delete", "NoMatch"}
           /\ Fits(b) # {} =>
                 result = [variant |-> StructVariants[first].variant,
                           value |-> Deser(StructVariants[first].struct, b)]
           /\ (Fits(b) = {} /\ IsBoolBody(b)) => result = [variant |-> "Delete", value |-> [flag |-> b.v]]
           /\ (Fits(b) = {} /\ ~IsBoolBody(b)) => result = [variant |-> "NoMatch"]

C19_Witness ==
    /\ Classified
    /\ {4, 5} \subseteq Fits(resp.body)
    /\ Cardinality(Fits(resp.body)) = 2
    /\ result.variant = "WaifuGenericResponse"

\* the optional fields of a file entry are absent, null or of their type
FileOptionalsOk(b) ==
    /\ Has(b, "bucket") => b.f["bucket"].t \in {"null", "str"}
    /\ Has(b, "album") =>
          (b.f["album"].t = "null" \/ (b.f["album"].t = "obj" /\ b.f["album"].s = "WaifuAlbumMetadata"))
    /\ Has(b, "options") =>
          (b.f["options"].t = "null" \/ (b.f["options"].t = "obj" /\ b.f["options"].s = "WaifuFileOptions"))

\* an object with token and url as strings and views as a count
HasFileKey(b) ==
    /\ HasStr(b, "token") /\ HasStr(b, "url")
    /\ Has(b, "views") /\ b.f["views"].t = "num" /\ b.f["views"].n >= 0

\* C20: every object with token, url and views (of their types, and its
\* optional fields, where present, of theirs) classifies as a file entry,
\* whether or not bucket, album, retentionPeriod and options are present.
C20_FileWheneverThreeFields ==
    (Classified /\ HasFileKey(resp.body) /\ FileOptionalsOk(resp.body))
        => result.variant = "WaifuFileResponse"

\* C20 (amended): an object with token and url as strings, views as a
\* non-negative integer and retentionPeriod present, with any value,
\* classifies as a file entry whatever other fields it has, provided bucket,
\* album and options are each absent, null or of their type.
C20_FileWithRetentionPeriod ==
    (Classified /\ HasFileKey(resp.body) /\ FileOptionalsOk(resp.body)
        /\ Has(resp.body, "retentionPeriod"))
        => (result.variant = "WaifuFileResponse"
            /\ result.value["token"] = resp.body.f["token"]
            /\ result.value["retentionPeriod"] = resp.body.f["retentionPeriod"])

C20_Witness ==
    /\ Classified /\ HasFileKey(resp.body) /\ Has(resp.body, "retentionPeriod")
    /\ {"bucketToken", "name", "files"} \subseteq DOMAIN resp.body.f
    /\ ~Has(resp.body, "bucket") /\ ~Has(resp.body, "options")
    /\ result.variant = "WaifuFileResponse"

----------------------------------------------------------------------------
(* Failures of the transport *)

\* an operation has returned after its request went to the transport
Answered == pc = "done" /\ op # "classify" /\ resp # NoResponse

\* the request could not be sent
SendFailure == Answered /\ ~resp.sent

\* the body was read as the envelope and is none
DecodeFailure ==
    Answered /\ resp.sent /\ ~StatusDecides /\ from_json(resp.body).variant = "NoMatch"

\* C22: a request that cannot be sent, and a body that cannot be read as
\* the envelope, come back as an error of the transport library that holds
\* no WaifuError; an error that does hold one was sent by the service as an
\* error body.
C22_TransportFailureIsNoWaifuError ==
    /\ (SendFailure \/ DecodeFailure) =>
          /\ result.kind = "Err"
          /\ result.error.root = "reqwest"
          /\ Downcast(result.error) = None
    /\ (Answered /\ result.kind = "Err" /\ IsSome(Downcast(result.error))) =>
          /\ resp.sent
          /\ from_json(resp.body).variant = "WaifuError"
          /\ result.error.root = "WaifuError"

C22_Witness ==
    /\ SendFailure /\ op = "delete_bucket"
    /\ result = Err(Context(FromReqwest("send"), "sending delete bucket request"))

----------------------------------------------------------------------------
(* The legal variant of each endpoint *)

\* a JSON endpoint has returned on a response
JsonAnswered == pc = "done" /\ op \in JsonOps /\ resp.sent

\* the payload of a body as the variant v: the fields of its struct, or the
\* boolean itself
Payload(v, b) ==
    CASE v = "WaifuFileResponse" -> Deser(WaifuFileEntry, b)
      [] v = "WaifuAlbumResponse" -> Deser(WaifuAlbumEntry, b)
      [] v = "WaifuBucketResponse" -> Deser(WaifuBucketEntry, b)
      [] v = "WaifuGenericResponse" -> Deser(WaifuGenericMessage, b)
      [] OTHER -> (b.v.n = 1)

\* C24: a JSON endpoint returns success exactly when the body classifies as
\* its one legal variant (bucket for create_bucket and get_bucket, album
\* for the four album calls, generic message for delete_album, share_album
\* and revoke_album, the boolean for delete_file and delete_bucket, file
\* entry for upload_file, file_info and update_file), and the value
\* returned is that variant's payload as the body gave it.
C24_SuccessOnlyForLegalVariant ==
    JsonAnswered =>
        /\ result.kind = "Ok" <=> from_json(resp.body).variant = LegalVariant(op)
        /\ result.kind = "Ok" => result.value = Payload(LegalVariant(op), resp.body)

C24_Witness ==
    /\ JsonAnswered /\ op = "delete_file"
    /\ resp.body = ValBody(JBool(FALSE))
    /\ result = Ok(FALSE)

----------------------------------------------------------------------------
(* Bodies that match several shapes *)

\* an object body cut down to the fields of one struct
Restrict(b, struct) ==
    IF b.t = "obj" THEN ObjBody([k \in DOMAIN b.f \cap FieldNames(struct) |-> b.f[k]]) ELSE b

\* an object that is a generic message and an error of the service at once
GenericAndError(b) ==
    /\ b.t = "obj"
    /\ DOMAIN b.f = {"success", "description", "name", "message", "status"}
    /\ {4, 5} \subseteq Fits(b)

GenericOps == {"share_album", "revoke_album", "delete_album"}

\* C25: a body that fits several struct variants resolves to the earliest
\* in the order file, album, bucket, generic message, error, and to the
\* boolean only when it fits none; fields outside a struct never keep a body
\* from fitting it.  An object with success, description, name, message and
\* status is a generic message, and share_album, revoke_album and
\* delete_album return it as their success value.
C25_EarliestShapeWins ==
    JsonAnswered =>
        LET b == resp.body
        IN /\ \A i \in Fits(b) :
                 from_json(b).variant = StructVariants[i].variant \/ \E j \in Fits(b) : j < i
           /\ from_json(b).variant = "Delete" => Fits(b) = {}
           /\ \A i \in DOMAIN StructVariants :
                 Matches(StructVariants[i].struct, Restrict(b, StructVariants[i].struct))
                     => i \in Fits(b)
           /\ GenericAndError(b) =>
                 /\ from_json(b).variant = "WaifuGenericResponse"
                 /\ op \in GenericOps =>
                       result = Ok([success |-> b.f["success"], description |-> b.f["description"]])

C25_Witness ==
    /\ JsonAnswered /\ op = "share_album"
    /\ GenericAndError(resp.body)
    /\ result.kind = "Ok"
    /\ result.value["success"] = JBool(FALSE)

----------------------------------------------------------------------------
(* Several content sources on one upload request *)

\* C26: with several content sources set, the request that goes out has the
\* body of one of them: of the file when a file is set (and the file is the
\* only thing read), else of the url, else of the bytes; the other sources
\* leave no trace in it.  When the file is set and cannot be read the call
\* fails and nothing goes out, whatever url or bytes are set.
C26_FirstSourceWins ==
    /\ (UploadSending /\ NumSources(req) > 1) =>
          IF IsSome(req.file)
            THEN /\ Len(reads) = 1 /\ IsSome(reads[1])
                 /\ wire.body.enc = "multipart"
                 /\ wire.body.parts =
                       << [name |-> "file",
                           filename |-> Some(Unwrap(req.file)[Len(Unwrap(req.file))]),
                           data |-> Unwrap(reads[1])] >> \o PasswordParts(req)
            ELSE /\ reads = << >>
                 /\ wire.body.enc = "form"
                 /\ wire.body.fields =
                       << <<"url", Unwrap(req.url)>> >>
                       \o (IF IsSome(req.password)
                             THEN << <<"password", Unwrap(req.password)>> >> ELSE << >>)
    /\ (UploadCalled /\ NumSources(req) > 1 /\ IsSome(req.file) /\ ReadFailed) =>
          (pc = "done" /\ result.kind = "Err" /\ result.error.root = "io"
           /\ sends = 0 /\ wire = NoWire)

C26_Witness ==
    /\ UploadSending /\ NumSources(req) = 3
    /\ wire.body.enc = "multipart"
    /\ wire.body.parts[1].data # Unwrap(req.bytes)
    /\ wire.body.parts[1].filename # req.filename

----------------------------------------------------------------------------
(* The builders *)

\* C27: on every upload request the builders can produce, bytes is set
\* exactly when filename is set; so upload_file on a request with bytes set
\* and neither file nor url set sends the multipart body of the bytes and
\* never fails for want of a content source.
C27_BytesIffFilename ==
    /\ req.kind = "upload" => (IsSome(req.bytes) <=> IsSome(req.filename))
    /\ (UploadCalled /\ IsSome(req.bytes) /\ IsNone(req.file) /\ IsNone(req.url)) =>
          /\ pc = "sending" /\ result = NoResult
          /\ wire.body.enc = "multipart"
          /\ wire.body.parts[1].data = Unwrap(req.bytes)

C27_Witness ==
    /\ UploadCalled /\ BytesOnly(req)
    /\ IsSome(req.expires) /\ req.hide_filename
    /\ pc = "sending"

\* a builder method is applied to the request value being built
BuilderStep == pc = "idle" /\ pc' = "idle" /\ req.kind # "none" /\ req'.kind = req.kind

\* the fields in which two request values of one type differ
Changed(r1, r2) == {k \in DOMAIN r1 : r1[k] # r2[k]}

\* the fields one builder method writes
BuilderFields ==
    {{"bytes", "filename"}}
    \cup {{k} : k \in {"file", "url", "bucket", "expires", "hide_filename", "password",
                        "one_time_download", "formatted", "previous_password",
                        "custom_expiry"}}

\* C28: a builder step changes nothing but the request value, and in it
\* only the field of one method (bytes and filename for bytes()), never the
\* token; what it writes is a value (an Option field becomes or stays Some),
\* so a content source that is set stays set, and steps of different
\* methods, writing disjoint fields, give the same request in either order.
C28_BuildersChangeOwnField ==
    [][BuilderStep =>
         /\ UNCHANGED <<op, pw, wire, sends, reads, resp, result, kept>>
         /\ DOMAIN req' = DOMAIN req
         /\ \E fs \in BuilderFields : Changed(req, req') \subseteq fs
         /\ \A k \in DOMAIN req \ {"kind", "token", "hide_filename", "one_time_download", "formatted"} :
               /\ IsSome(req[k]) => IsSome(req'[k])
               /\ k \in Changed(req, req') => IsSome(req'[k])
    ]_vars

C28_Witness ==
    /\ pc = "idle" /\ req.kind = "upload"
    /\ IsSome(req.file) /\ IsSome(req.url) /\ IsSome(req.bytes)
    /\ IsSome(req.password) /\ req.one_time_download

----------------------------------------------------------------------------
(* The HTTP status *)

\* C29: on a JSON endpoint the result is the same whatever status comes with
\* the body: a body of the endpoint's legal variant is a success under any
\* status, and a body that is the service's error is returned as that
\* WaifuError under any status, 200 included.
C29_StatusNeverConsulted ==
    JsonAnswered =>
        /\ \A st \in Statuses : Resume(op, pw, Response(st, resp.body)) = result
        /\ from_json(resp.body).variant = LegalVariant(op) => result.kind = "Ok"
        /\ from_json(resp.body).variant = "WaifuError" =>
              (result.kind = "Err" /\ IsSome(Downcast(result.error)))

C29_Witness ==
    /\ JsonAnswered /\ op = "get_album" /\ resp.status = 404
    /\ resp.body = ObjBody(AlbumObject)
    /\ result.kind = "Ok"

\* download_album has returned on a response
AlbumDownloaded == pc = "done" /\ op = "download_album" /\ resp.sent

\* C30: download_album returns bytes, and then the response body, exactly
\* on status 200; on every other status, 403 included, a body that is the
\* service's error comes back as that WaifuError and any other body as an
\* error without one.  The request body is the JSON array of the ids given,
\* in their order, and the empty array when none are given.
C30_AlbumDownload ==
    /\ AlbumDownloaded =>
          /\ result.kind = "Ok" <=> resp.status = 200
          /\ resp.status = 200 => result = Ok(resp.body)
          /\ resp.status # 200 =>
                /\ result.kind = "Err"
                /\ IF from_json(resp.body).variant = "WaifuError"
                     THEN Downcast(result.error)
                            = Some([name |-> BodyField(resp.body, "name", 1).s,
                                    message |-> BodyField(resp.body, "message", 2).s,
                                    status |-> BodyField(resp.body, "status", 3).n])
                     ELSE Downcast(result.error) = None
    /\ (pc = "sending" /\ op = "download_album") =>
          /\ wire.method = "POST"
          /\ wire.body = [enc |-> "json",
                          array |-> IF IsSome(req.file_ids) THEN Unwrap(req.file_ids) ELSE << >>]

C30_Witness ==
    /\ AlbumDownloaded /\ resp.status = 403
    /\ ErrorShape(resp.body) /\ resp.body.f["status"].n = 404
    /\ ReturnsWaifuError(resp.body)


\* a task whose call is under way or over: the request that went out is the
\* one its own arguments give, the result the one its own response gives
TaskOk(t) ==
    /\ (t.pc = "sending" /\ t.op = "file_info") =>
          t.wire = Request("GET", <<API, t.req.token>>,
                           << <<"formatted", BoolStr(t.req.formatted)>> >>, << >>, NoBody)
    /\ (t.pc = "sending" /\ t.op = "download_file") =>
          t.wire = DownloadRequest(t.wire.url[1], t.pw)
    /\ (t.pc = "sending" /\ t.op = "create_bucket") =>
          t.wire = Request("GET", <<API, "bucket", "create">>, << >>, << >>, NoBody)
    /\ (t.pc = "done" /\ t.resp.sent) => t.result = Resume(t.op, t.pw, t.resp)

\* C23: with two tasks interleaved on one shared ApiCaller, no step writes the
\* ApiCaller, a step changes the other task's locals only by switching to it,
\* and after every step each task's request is the one its own arguments give
\* and each task's result the one its own response gives.
C23_CallsShareNothing ==
    [][/\ caller' = caller
       /\ (parked' # parked) => (parked' = Running /\ Running' = parked)
       /\ TaskOk(Running')
       /\ TaskOk(parked')]_vars

\* one task has its file_info answered with a file entry while the other, a
\* download with a password, is still waiting for its answer
C23_Witness ==
    /\ pc = "done" /\ op = "file_info" /\ result.kind = "Ok"
    /\ parked.pc = "waiting" /\ parked.op = "download_file" /\ IsSome(parked.pw)
    /\ caller = ApiCaller_new

\* file_info has returned the entry of the file, which was uploaded without a
\* password and came back unprotected and not one-time, and of which
\* update_file has since been asked once, for a new password only
PatchedWithPassword ==
    /\ pc = "done" /\ op = "file_info" /\ result.kind = "Ok"
    /\ store.held /\ store.updates = "password only"
    /\ ~store.first.protected /\ ~store.first.oneTimeDownload

\* C21: against a service that applies only the fields present in a
\* modification body, after a bytes upload without password came back with
\* protected and oneTimeDownload false and update_file set only a new password,
\* file_info returns options with protected true and hideFilename as the
\* upload returned it.
C21_PasswordOnlyPatch ==
    PatchedWithPassword =>
        LET o == DecodeOptions(result.value["options"])
        IN o.protected /\ o.hideFilename = store.first.hideFilename

\* the case with the filename hidden from the start: it is still hidden
C21_Witness ==
    /\ PatchedWithPassword
    /\ store.first.hideFilename
    /\ DecodeOptions(result.value["options"]) =
          [hideFilename |-> TRUE, oneTimeDownload |-> FALSE, protected |-> TRUE]


============================================================================
